---- MODULE Spec2Model ----
(***************************************************************************)
(* The resource-to-service compiler of aepc (writer/proto/resource.go).   *)
(*                                                                         *)
(* AddResource compiles one parsed resource into two accumulators: the    *)
(* file builder fb (messages) and the service builder sb (RPC methods).   *)
(* Strings are sequences of tokens: every word is one token and every     *)
(* punctuation character is one token, so that two strings are equal      *)
(* exactly when their token sequences are equal.                          *)
(***************************************************************************)
EXTENDS Naturals, Sequences, FiniteSets, TLC

\* ------------------------------------------------------------- bounds

\* Longest ancestor chain above a compiled resource.
MaxDepth == 2
\* Most fields a resource schema holds.
MaxFields == 2
\* Longest `elements` slice the ancestor walk is followed to.
MaxWalk == 4
\* Most books the store is filled with.
MaxBooks == 3

\* ---------------------------------------------------------- constants

\* The reserved field numbers of package constants. The specification
\* fixes parent, id and path; for the others it only says that each is a
\* fixed constant and that the numbers of one message are unique.
FIELD_PARENT_NUMBER == 1
FIELD_ID_NUMBER == 2
FIELD_PATH_NUMBER == 1
FIELD_RESOURCE_NUMBER == 3
FIELD_UPDATE_MASK_NUMBER == 4
FIELD_PAGE_TOKEN_NUMBER == 5
FIELD_MAX_PAGE_SIZE_NUMBER == 6
FIELD_RESOURCES_NUMBER == 7
FIELD_NEXT_PAGE_TOKEN_NUMBER == 8

FIELD_PARENT_NAME == "parent"
FIELD_ID_NAME == "id"
FIELD_PATH_NAME == "path"
FIELD_UPDATE_MASK_NAME == "update_mask"
FIELD_PAGE_TOKEN_NAME == "page_token"
FIELD_MAX_PAGE_SIZE_NAME == "max_page_size"
FIELD_NEXT_PAGE_TOKEN_NAME == "next_page_token"

\* ------------------------------------------------------------ strings

\* strings.ToLower on one word.
ToLower(s) ==
    CASE s = "Publisher" -> "publisher"
      [] s = "Publishers" -> "publishers"
      [] s = "Store" -> "store"
      [] s = "Shelf" -> "shelf"
      [] s = "Book" -> "book"
      [] OTHER -> s

\* strings.Join(elems, sep), sep a token sequence.
RECURSIVE Join(_, _)
Join(elems, sep) ==
    IF Len(elems) = 0 THEN <<>>
    ELSE IF Len(elems) = 1 THEN <<elems[1]>>
    ELSE <<elems[1]>> \o sep \o Join(Tail(elems), sep)

\* ------------------------------------------------------ resource model

\* schema.Type: the six scalar types with a protocol mapping, and one
\* without.
SupportedTypes == {"STRING", "INT32", "INT64", "BOOLEAN", "DOUBLE", "FLOAT"}
SchemaTypes == SupportedTypes \cup {"OBJECT"}

\* The fields a schema draws from: names and numbers are pairwise distinct,
\* and the unmapped type sits between mapped ones in number order.
FieldPool ==
    { [Name |-> "isbn",      Type |-> "STRING",  Number |-> 3],
      [Name |-> "pages",     Type |-> "INT32",   Number |-> 1],
      [Name |-> "sold",      Type |-> "INT64",   Number |-> 7],
      [Name |-> "published", Type |-> "BOOLEAN", Number |-> 2],
      [Name |-> "price",     Type |-> "DOUBLE",  Number |-> 6],
      [Name |-> "rating",    Type |-> "FLOAT",   Number |-> 5],
      [Name |-> "cover",     Type |-> "OBJECT",  Number |-> 4] }

FieldSets == {S \in SUBSET FieldPool : Cardinality(S) <= MaxFields}

MethodOrder == <<"Create", "Read", "Update", "Delete", "List", "GlobalList", "Apply">>
MethodKinds == {MethodOrder[i] : i \in 1..Len(MethodOrder)}

\* r.Methods: a nil block, or a block with any subset of the methods set.
MethodBlocks ==
    {[present |-> FALSE, enabled |-> {}]}
        \cup {[present |-> TRUE, enabled |-> S] : S \in SUBSET MethodKinds}

\* Kinds, outermost first: a chain is a run of consecutive kinds.
KindPool == <<"Publisher", "Store", "Shelf", "Book">>

\* The plural each schema declares. Publisher's is written capitalised.
PluralOf(kind) ==
    CASE kind = "Publisher" -> "Publishers"
      [] kind = "Store" -> "stores"
      [] kind = "Shelf" -> "shelves"
      [] kind = "Book" -> "books"

Chains ==
    { SubSeq(KindPool, c[1] - c[2], c[1]) :
        c \in {c \in (1..Len(KindPool)) \X (0..MaxDepth) : c[1] > c[2]} }

\* parser.ParsedResource, as far as the compiler reads it.
ParsedResource(kind, parents, fields, methods) ==
    [ Kind |-> kind, Plural |-> PluralOf(kind), Type |-> kind,
      Parents |-> parents, Fields |-> fields, Methods |-> methods ]

NoResource == ParsedResource("Book", <<>>, {}, [present |-> FALSE, enabled |-> {}])

\* ParsedResource.GetFieldsSortedByNumber.
RECURSIVE GetFieldsSortedByNumber(_)
GetFieldsSortedByNumber(fields) ==
    IF fields = {} THEN <<>>
    ELSE LET lo == CHOOSE f \in fields : \A g \in fields : f.Number <= g.Number
         IN  <<lo>> \o GetFieldsSortedByNumber(fields \ {lo})

\* -------------------------------------------------------- the builders

NewMessage(name) == [name |-> name, fields |-> <<>>]

NewField(name, typ) ==
    [ name |-> name, type |-> typ, number |-> 0, repeated |-> FALSE,
      required |-> FALSE, reference |-> <<>> ]

SetNumber(f, n) == [f EXCEPT !.number = n]

AddField(mb, f) == [mb EXCEPT !.fields = Append(@, f)]

NewMethod(name, req, resp) ==
    [ name |-> name, input |-> req, output |-> resp,
      verb |-> "", path |-> <<>>, body |-> "", signature |-> <<>> ]

\* ---------------------------------------------------------- the errors

\* An error is its message; the nil error is the empty message.
NoError == <<>>

\* What a call returned: nothing yet, nil, or an error.
NotReturned == [kind |-> "none", msg |-> <<>>]
ReturnNil == [kind |-> "nil", msg |-> <<>>]
ReturnError(msg) == [kind |-> "error", msg |-> msg]

\* desc.LoadMessageDescriptor / LoadMessageDescriptorForType: the descriptor
\* of a well-known type from the global registry, or nil and an error.
LoadMessageDescriptor(name, ok) ==
    IF ok THEN [md |-> <<name>>, err |-> NoError]
    ELSE [md |-> <<>>, err |-> <<"no descriptor registered for", name>>]

\* ------------------------------------------------ the resource message

\* FieldType without its default case: typ keeps its initial value, bool.
FieldType_DefaultsToBool(t) ==
    CASE t = "STRING" -> <<"string">>
      [] t = "INT32" -> <<"int32">>
      [] t = "INT64" -> <<"int64">>
      [] t = "DOUBLE" -> <<"double">>
      [] t = "FLOAT" -> <<"float">>
      [] OTHER -> <<"bool">>

\* The switch on p.Type of GeneratedResourceMessage.
FieldType(t) ==
    CASE t = "STRING" -> <<"string">>
      [] t = "INT32" -> <<"int32">>
      [] t = "INT64" -> <<"int64">>
      [] t = "BOOLEAN" -> <<"bool">>
      [] t = "DOUBLE" -> <<"double">>
      [] t = "FLOAT" -> <<"float">>
      [] OTHER -> <<>>

\* GenerateFields numbering the fields by their position instead of their
\* schema number.
GenerateFields_ByPosition(ps, mb) ==
    IF \E i \in 1..Len(ps) : FieldType(ps[i].Type) = <<>>
    THEN LET bad == CHOOSE i \in 1..Len(ps) :
                       /\ FieldType(ps[i].Type) = <<>>
                       /\ \A j \in 1..(i - 1) : FieldType(ps[j].Type) # <<>>
         IN  [ mb |-> NewMessage(<<>>),
               err |-> <<"proto mapping for type", ps[bad].Type, "not found">> ]
    ELSE [ mb |-> [mb EXCEPT !.fields =
                      [i \in 1..Len(ps) |->
                          SetNumber(NewField(ps[i].Name, FieldType(ps[i].Type)), i)]],
           err |-> NoError ]

\* The loop of GeneratedResourceMessage over the sorted fields: the first
\* field without a mapping ends it with an error and no message.
RECURSIVE GenerateFields(_, _)
GenerateFields(ps, mb) ==
    IF Len(ps) = 0 THEN [mb |-> mb, err |-> NoError]
    ELSE LET pf == Head(ps) IN
         IF FieldType(pf.Type) = <<>>
         THEN [ mb |-> NewMessage(<<>>),
                err |-> <<"proto mapping for type", pf.Type, "not found">> ]
         ELSE GenerateFields(Tail(ps),
                  AddField(mb, SetNumber(NewField(pf.Name, FieldType(pf.Type)),
                                         pf.Number)))

GeneratedResourceMessage(res) ==
    GenerateFields(GetFieldsSortedByNumber(res.Fields), NewMessage(<<res.Kind>>))

\* The resource message of a resource whose generation succeeded.
resourceMb(res) == GeneratedResourceMessage(res).mb

\* ---------------------------------------------------- the field helpers

addParentField(res, mb) ==
    AddField(mb, [SetNumber(NewField(FIELD_PARENT_NAME, <<"string">>),
                            FIELD_PARENT_NUMBER)
                    EXCEPT !.required = TRUE, !.reference = <<"reference">>])

\* addIdField with the parent field's number.
addIdField_ParentNumber(res, mb) ==
    AddField(mb, SetNumber(NewField(FIELD_ID_NAME, <<"string">>), FIELD_PARENT_NUMBER))

addIdField(res, mb) ==
    AddField(mb, SetNumber(NewField(FIELD_ID_NAME, <<"string">>), FIELD_ID_NUMBER))

addPathField(res, mb) ==
    AddField(mb, [SetNumber(NewField(FIELD_PATH_NAME, <<"string">>),
                            FIELD_PATH_NUMBER)
                    EXCEPT !.required = TRUE,
                           !.reference = <<"reference", res.Type>>])

addResourceField(res, rmb, mb) ==
    AddField(mb, [SetNumber(NewField(ToLower(res.Kind), rmb.name),
                            FIELD_RESOURCE_NUMBER)
                    EXCEPT !.required = TRUE])

addResourcesField(res, rmb, mb) ==
    AddField(mb, [SetNumber(NewField("results", rmb.name), FIELD_RESOURCES_NUMBER)
                    EXCEPT !.repeated = TRUE])

addPageToken(res, mb) ==
    AddField(mb, SetNumber(NewField(FIELD_PAGE_TOKEN_NAME, <<"string">>),
                           FIELD_PAGE_TOKEN_NUMBER))

addNextPageToken(res, mb) ==
    AddField(mb, SetNumber(NewField(FIELD_NEXT_PAGE_TOKEN_NAME, <<"string">>),
                           FIELD_NEXT_PAGE_TOKEN_NUMBER))

\* ------------------------------------------- the request and response messages

CreateRequest(res) ==
    addResourceField(res, resourceMb(res),
        addIdField(res,
            addParentField(res, NewMessage(<<"Create", res.Kind, "Request">>))))

GetRequest(res) ==
    addPathField(res, NewMessage(<<"Get", res.Kind, "Request">>))

\* fieldMaskDescriptor is used whether or not its load succeeded.
UpdateRequest(res, fieldMaskDescriptor) ==
    AddField(addResourceField(res, resourceMb(res),
                 addPathField(res, NewMessage(<<"Update", res.Kind, "Request">>))),
             SetNumber(NewField(FIELD_UPDATE_MASK_NAME, fieldMaskDescriptor),
                       FIELD_UPDATE_MASK_NUMBER))

DeleteRequest(res) ==
    addPathField(res, NewMessage(<<"Delete", res.Kind, "Request">>))

ListRequest(res) ==
    AddField(addPageToken(res,
                 addParentField(res, NewMessage(<<"List", res.Kind, "Request">>))),
             SetNumber(NewField(FIELD_MAX_PAGE_SIZE_NAME, <<"int32">>),
                       FIELD_MAX_PAGE_SIZE_NUMBER))

ListResponse(res) ==
    addNextPageToken(res,
        addResourcesField(res, resourceMb(res),
            NewMessage(<<"List", res.Kind, "Response">>)))

GlobalListRequest(res) ==
    addPageToken(res,
        addPathField(res, NewMessage(<<"GlobalList", res.Kind, "Request">>)))

GlobalListResponse(res) ==
    addNextPageToken(res,
        addResourcesField(res, resourceMb(res),
            NewMessage(<<"GlobalList", res.Kind, "Response">>)))

ApplyRequest(res) ==
    addResourceField(res, resourceMb(res),
        addPathField(res, NewMessage(<<"Apply", res.Kind, "Request">>)))

\* ------------------------------------------------------------ the paths

\* HTTPPath without the trailing wildcard.
HTTPPath_NoWildcard(elems) == Join(elems, <<"/", "*", "/">>)

\* The return statement of generateHTTPPath:
\* fmt.Sprintf("%v/*", strings.Join(elements, "/*/")).
HTTPPath(elems) == Join(elems, <<"/", "*", "/">>) \o <<"/", "*">>

\* generateParentHTTPPath, given the elements its call of generateHTTPPath
\* on r.Parents[0] collected (none when r has no parent).
generateParentHTTPPath(res, elems) ==
    LET parentPath == IF Len(res.Parents) > 0 THEN HTTPPath(elems) ELSE <<>>
    IN  <<"/", "{", "parent", "=">> \o parentPath \o <<ToLower(res.Plural)>> \o <<"}">>

\* fmt.Sprintf("/{path=%v}", generateHTTPPath(r)).
PathBinding(elems) == <<"/", "{", "path", "=">> \o HTTPPath(elems) \o <<"}">>

\* ---------------------------------------------------------- the methods

CreateMethod(res, elems) ==
    [ NewMethod(<<"Create", res.Kind>>, CreateRequest(res).name, resourceMb(res).name)
        EXCEPT !.verb = "POST",
               !.path = generateParentHTTPPath(res, elems),
               !.body = ToLower(res.Kind),
               !.signature = <<Join(<<FIELD_PARENT_NAME, ToLower(res.Kind)>>, <<",">>)>> ]

GetMethod(res, elems) ==
    [ NewMethod(<<"Get", res.Kind>>, GetRequest(res).name, resourceMb(res).name)
        EXCEPT !.verb = "GET",
               !.path = PathBinding(elems),
               !.signature = <<Join(<<FIELD_PATH_NAME>>, <<",">>)>> ]

UpdateMethod(res, elems) ==
    [ NewMethod(<<"Update", res.Kind>>, <<"Update", res.Kind, "Request">>,
                resourceMb(res).name)
        EXCEPT !.verb = "PATCH",
               !.path = <<"/", "{", ToLower(res.Kind), ".", "path", "=">>
                            \o HTTPPath(elems) \o <<"}">>,
               !.body = ToLower(res.Kind),
               !.signature = <<Join(<<ToLower(res.Kind), FIELD_UPDATE_MASK_NAME>>,
                                    <<",">>)>> ]

DeleteMethod(res, elems) ==
    [ NewMethod(<<"Delete", res.Kind>>, DeleteRequest(res).name,
                <<"google.protobuf.Empty">>)
        EXCEPT !.verb = "DELETE",
               !.path = PathBinding(elems),
               !.signature = <<Join(<<FIELD_PATH_NAME>>, <<",">>)>> ]

ListMethod(res, elems) ==
    [ NewMethod(<<"List", res.Kind>>, ListRequest(res).name, ListResponse(res).name)
        EXCEPT !.verb = "GET",
               !.path = generateParentHTTPPath(res, elems),
               !.signature = <<Join(<<FIELD_PARENT_NAME>>, <<",">>)>> ]

GlobalListMethod(res) ==
    [ NewMethod(<<"GlobalList", res.Kind>>, GlobalListRequest(res).name,
                GlobalListResponse(res).name)
        EXCEPT !.verb = "GET",
               !.path = <<"/", "{", "path", "=", "-", "-", "/",
                          ToLower(res.Kind), "}">> ]

ApplyMethod(res, elems) ==
    [ NewMethod(<<"Apply", res.Kind>>, ApplyRequest(res).name, resourceMb(res).name)
        EXCEPT !.verb = "PUT",
               !.path = PathBinding(elems),
               !.body = ToLower(res.Kind) ]

\* ------------------------------------------- the example service: values

\* A *bpb.Book: nil, or a book with its Id, its Path and the rest of its
\* fields.
NilBook == [nil |-> TRUE, Id |-> "", Path |-> <<>>, rest |-> ""]

\* fmt.Sprintf("books/%v", id)
BookPath(id) == <<"books", "/", id>>

\* The ids a client sends in a CreateBookRequest; "" asks for an automatic
\* one.
ClientIds == {"", "2", "x"}

\* The resources a client sends: none, a book with only its own fields set,
\* or a book read from elsewhere that still carries an Id and a Path.
Resources ==
    {NilBook} \cup
    { [nil |-> FALSE, Id |-> i, Path |-> IF i = "" THEN <<>> ELSE BookPath(i), rest |-> c] :
        i \in {"", "9"}, c \in {"a", "b"} }

\* The paths a client sends in an Apply, Delete or Read request.
RequestPaths == { BookPath(ToString(n)) : n \in 1..MaxBooks } \cup { BookPath("x") }

\* make(map[string]*bpb.Book)
EmptyMap == [q \in {} |-> NilBook]

\* bookDatabase[path], nil when the path is not a key.
Lookup(db, path) == IF path \in DOMAIN db THEN db[path] ELSE NilBook

\* bookDatabase[path] = book
Store(db, path, book) ==
    [q \in DOMAIN db \cup {path} |-> IF q = path THEN book ELSE db[q]]

\* delete(bookDatabase, path)
Delete(db, path) == [q \in DOMAIN db \ {path} |-> db[q]]

\* No request has been served yet.
NoCall == [op |-> "", Id |-> "", Path |-> <<>>, Resource |-> NilBook]
NoReply == [code |-> "", book |-> NilBook]

\* What a handler returns: a book and a nil error, an empty message and a
\* nil error, a NotFound status, or nothing because it panicked.
ReplyBook(b) == [code |-> "OK", book |-> b]
ReplyEmpty == [code |-> "OK", book |-> NilBook]
ReplyNotFound == [code |-> "NotFound", book |-> NilBook]
Panic == [code |-> "panic", book |-> NilBook]

\* ------------------------------------------------------------ the state

VARIABLES
    fb,        \* the file builder: the messages added so far, in order
    sb,        \* the service builder: the RPC methods added so far, in order
    r,         \* the resource of the current (or last) AddResource call
    pc,        \* where that call stands
    m,         \* the method generator that is running
    ret,       \* what the call returned
    elements,  \* generateHTTPPath: the elements slice
    p,         \* generateHTTPPath: the ancestor p points at
    target,    \* generateHTTPPath: its argument
    chain,     \* the kinds the driver compiles, outermost first
    k,         \* how many of them it has passed to AddResource
    fb0,       \* fb when the current call began
    sb0,       \* sb when the current call began
    failed,    \* the descriptors whose load failed during the current call
    bookDatabase,  \* the example service: its map from path to book
    call,          \* the example service: the last request it served
    reply,         \* the example service: what that request returned
    db0,           \* bookDatabase when that request arrived
    idsGiven       \* whether some CreateBook request so far carried an id

\* The variables of the compiler and those of the example service.
cvars == <<fb, sb, r, pc, m, ret, elements, p, target, chain, k, fb0, sb0, failed>>
svars == <<bookDatabase, call, reply, db0, idsGiven>>
vars == <<cvars, svars>>

\* NextPc without the test of r.Methods.Apply.
NextPc_WithoutApply(res, i) ==
    LET later == { j \in (i + 1)..(Len(MethodOrder) - 1) :
                     res.Methods.present /\ MethodOrder[j] \in res.Methods.enabled }
    IN  IF later = {} THEN "returned"
        ELSE MethodOrder[CHOOSE j \in later : \A j2 \in later : j <= j2]

\* The method whose `if r.Methods.X != nil` is the next to hold after the
\* i-th of AddResource, or the final `return nil`.
NextPc(res, i) ==
    LET later == { j \in (i + 1)..Len(MethodOrder) :
                     res.Methods.present /\ MethodOrder[j] \in res.Methods.enabled }
    IN  IF later = {} THEN "returned"
        ELSE MethodOrder[CHOOSE j \in later : \A j2 \in later : j <= j2]

\* A generator returned nil: AddResource goes on to the next enabled one.
Continue(i) ==
    /\ pc' = NextPc(r, i)
    /\ ret' = IF NextPc(r, i) = "returned" THEN ReturnNil ELSE ret

\* StartServer up to s.Serve: the map is made and no request has been served.
StartServer ==
    /\ bookDatabase = EmptyMap
    /\ call = NoCall
    /\ reply = NoReply
    /\ db0 = EmptyMap
    /\ idsGiven = FALSE

Init ==
    /\ StartServer
    /\ fb = <<>>
    /\ sb = <<>>
    /\ r = NoResource
    /\ pc = "idle"
    /\ m = ""
    /\ ret = NotReturned
    /\ elements = <<>>
    /\ p = NoResource
    /\ target = NoResource
    /\ chain \in Chains
    /\ k = 0
    /\ fb0 = <<>>
    /\ sb0 = <<>>
    /\ failed = {}

\* ------------------------------------------------------- generateHTTPPath

\* generateHTTPPath(x) up to its loop: elements starts as x's plural, and
\* with a parent the loop is entered with p := x.Parents[0].
generateHTTPPath(x) ==
    /\ target' = x
    /\ elements' = <<ToLower(x.Plural)>>
    /\ IF Len(x.Parents) > 0
       THEN p' = x.Parents[1] /\ pc' = "loop"
       ELSE p' = p /\ pc' = "path"

\* One iteration of `for p != nil`: p's plural is prepended, and the loop
\* is left only when p has no parents. p is never assigned in the loop.
generateHTTPPathLoop ==
    /\ pc = "loop"
    /\ Len(elements) < MaxWalk
    /\ elements' = <<ToLower(p.Plural)>> \o elements
    /\ pc' = IF Len(p.Parents) = 0 THEN "path" ELSE "loop"
    /\ UNCHANGED <<fb, sb, r, m, ret, p, target, chain, k, fb0, sb0, failed, svars>>

\* The call of generateHTTPPath in generateParentHTTPPath, made only for a
\* resource with a parent.
EnterParentHTTPPath ==
    IF Len(r.Parents) > 0
    THEN generateHTTPPath(r.Parents[1])
    ELSE elements' = <<>> /\ pc' = "path" /\ UNCHANGED <<p, target>>

\* ------------------------------------------------------------ AddResource

\* AddResource up to its first method generator: the resource message is
\* generated and, unless that failed, added to the file.
AddResource(res) ==
    LET gen == GeneratedResourceMessage(res) IN
    /\ r' = res
    /\ fb0' = fb
    /\ sb0' = sb
    /\ failed' = {}
    /\ m' = ""
    /\ IF gen.err # NoError
       THEN /\ ret' = ReturnError(<<"unable to generate resource", res.Kind, ":">>
                                      \o gen.err)
            /\ pc' = "returned"
            /\ fb' = fb
       ELSE /\ fb' = Append(fb, gen.mb)
            /\ pc' = NextPc(res, 0)
            /\ ret' = IF NextPc(res, 0) = "returned" THEN ReturnNil ELSE NotReturned
    /\ UNCHANGED <<sb, elements, p, target, svars>>

\* The driver: the resources of the chain are compiled outermost first, each
\* with the one before it as its only parent. The ancestors carry no fields
\* and no methods; the last resource carries any.
Compile ==
    /\ pc \in {"idle", "returned"}
    /\ ret.kind # "error"
    /\ k < Len(chain)
    /\ k' = k + 1
    /\ chain' = chain
    /\ LET parents == IF k = 0 THEN <<>> ELSE <<r>> IN
       IF k + 1 < Len(chain)
       THEN AddResource(ParsedResource(chain[k + 1], parents, {},
                                       [present |-> FALSE, enabled |-> {}]))
       ELSE \E fields \in FieldSets, methods \in MethodBlocks :
                AddResource(ParsedResource(chain[k + 1], parents, fields, methods))

\* ---------------------------------------------------- the method generators

AddCreate ==
    /\ pc = "Create"
    /\ m' = "Create"
    /\ fb' = Append(fb, CreateRequest(r))
    /\ EnterParentHTTPPath
    /\ UNCHANGED <<sb, r, ret, chain, k, fb0, sb0, failed, svars>>

AddCreateMethod ==
    /\ pc = "path" /\ m = "Create"
    /\ sb' = Append(sb, CreateMethod(r, elements))
    /\ Continue(1)
    /\ elements' = <<>>
    /\ UNCHANGED <<fb, r, m, p, target, chain, k, fb0, sb0, failed, svars>>

AddGet ==
    /\ pc = "Read"
    /\ m' = "Read"
    /\ fb' = Append(fb, GetRequest(r))
    /\ generateHTTPPath(r)
    /\ UNCHANGED <<sb, r, ret, chain, k, fb0, sb0, failed, svars>>

AddGetMethod ==
    /\ pc = "path" /\ m = "Read"
    /\ sb' = Append(sb, GetMethod(r, elements))
    /\ Continue(2)
    /\ elements' = <<>>
    /\ UNCHANGED <<fb, r, m, p, target, chain, k, fb0, sb0, failed, svars>>

\* The error of the field-mask load is dropped: the descriptor, nil when the
\* load failed, is used as it is.
AddUpdate ==
    /\ pc = "Update"
    /\ m' = "Update"
    /\ \E ok \in BOOLEAN :
         LET fieldMask == LoadMessageDescriptor("google.protobuf.FieldMask", ok) IN
         /\ fb' = Append(fb, UpdateRequest(r, fieldMask.md))
         /\ failed' = IF ok THEN failed ELSE failed \cup {"google.protobuf.FieldMask"}
    /\ generateHTTPPath(r)
    /\ UNCHANGED <<sb, r, ret, chain, k, fb0, sb0, svars>>

AddUpdateMethod ==
    /\ pc = "path" /\ m = "Update"
    /\ sb' = Append(sb, UpdateMethod(r, elements))
    /\ Continue(3)
    /\ elements' = <<>>
    /\ UNCHANGED <<fb, r, m, p, target, chain, k, fb0, sb0, failed, svars>>

\* The request message is added to the file before the empty descriptor is
\* loaded; a failed load is returned as it is, by AddDelete and then by
\* AddResource.
AddDelete ==
    /\ pc = "Delete"
    /\ m' = "Delete"
    /\ fb' = Append(fb, DeleteRequest(r))
    /\ \E ok \in BOOLEAN :
         LET emptyMd == LoadMessageDescriptor("google.protobuf.Empty", ok) IN
         IF emptyMd.err # NoError
         THEN /\ ret' = ReturnError(emptyMd.err)
              /\ pc' = "returned"
              /\ failed' = failed \cup {"google.protobuf.Empty"}
              /\ UNCHANGED <<elements, p, target>>
         ELSE /\ generateHTTPPath(r)
              /\ UNCHANGED <<ret, failed>>
    /\ UNCHANGED <<sb, r, chain, k, fb0, sb0, svars>>

AddDeleteMethod ==
    /\ pc = "path" /\ m = "Delete"
    /\ sb' = Append(sb, DeleteMethod(r, elements))
    /\ Continue(4)
    /\ elements' = <<>>
    /\ UNCHANGED <<fb, r, m, p, target, chain, k, fb0, sb0, failed, svars>>

AddList ==
    /\ pc = "List"
    /\ m' = "List"
    /\ fb' = fb \o <<ListRequest(r), ListResponse(r)>>
    /\ EnterParentHTTPPath
    /\ UNCHANGED <<sb, r, ret, chain, k, fb0, sb0, failed, svars>>

AddListMethod ==
    /\ pc = "path" /\ m = "List"
    /\ sb' = Append(sb, ListMethod(r, elements))
    /\ Continue(5)
    /\ elements' = <<>>
    /\ UNCHANGED <<fb, r, m, p, target, chain, k, fb0, sb0, failed, svars>>

\* AddGlobalList computes no collection path.
AddGlobalList ==
    /\ pc = "GlobalList"
    /\ m' = "GlobalList"
    /\ fb' = fb \o <<GlobalListRequest(r), GlobalListResponse(r)>>
    /\ sb' = Append(sb, GlobalListMethod(r))
    /\ Continue(6)
    /\ UNCHANGED <<r, elements, p, target, chain, k, fb0, sb0, failed, svars>>

AddApply ==
    /\ pc = "Apply"
    /\ m' = "Apply"
    /\ fb' = Append(fb, ApplyRequest(r))
    /\ generateHTTPPath(r)
    /\ UNCHANGED <<sb, r, ret, chain, k, fb0, sb0, failed, svars>>

AddApplyMethod ==
    /\ pc = "path" /\ m = "Apply"
    /\ sb' = Append(sb, ApplyMethod(r, elements))
    /\ Continue(7)
    /\ elements' = <<>>
    /\ UNCHANGED <<fb, r, m, p, target, chain, k, fb0, sb0, failed, svars>>

Next ==
    \/ Compile
    \/ generateHTTPPathLoop
    \/ AddCreate
    \/ AddCreateMethod
    \/ AddGet
    \/ AddGetMethod
    \/ AddUpdate
    \/ AddUpdateMethod
    \/ AddDelete
    \/ AddDeleteMethod
    \/ AddList
    \/ AddListMethod
    \/ AddGlobalList
    \/ AddApply
    \/ AddApplyMethod

Spec == Init /\ [][Next]_vars

\* ---------------------------------------------------- the example service

\* CreateBook. An empty id becomes the number of stored books plus one; the
\* clone of a nil resource is a nil book, and setting its Id panics.
CreateBook ==
    /\ reply.code # "panic"
    /\ Cardinality(DOMAIN bookDatabase) < MaxBooks
    /\ \E id \in ClientIds, res \in Resources :
         LET rid == IF id = "" THEN ToString(Cardinality(DOMAIN bookDatabase) + 1) ELSE id
             path == BookPath(rid)
             book == [res EXCEPT !.Id = rid, !.Path = path]
         IN  /\ call' = [op |-> "CreateBook", Id |-> id, Path |-> <<>>, Resource |-> res]
             /\ db0' = bookDatabase
             /\ idsGiven' = (idsGiven \/ id # "")
             /\ IF res.nil
                THEN reply' = Panic /\ UNCHANGED bookDatabase
                ELSE /\ bookDatabase' = Store(bookDatabase, path, book)
                     /\ reply' = ReplyBook(book)
    /\ UNCHANGED cvars

\* ApplyBook. originalResource is nil when the path is not a key, and reading
\* its Id panics; so does setting the Id of the clone of a nil resource.
ApplyBook ==
    /\ reply.code # "panic"
    /\ \E path \in RequestPaths, res \in Resources :
         LET originalResource == Lookup(bookDatabase, path)
             book == [res EXCEPT !.Id = originalResource.Id,
                                 !.Path = originalResource.Path]
         IN  /\ call' = [op |-> "ApplyBook", Id |-> "", Path |-> path, Resource |-> res]
             /\ db0' = bookDatabase
             /\ IF res.nil \/ originalResource.nil
                THEN reply' = Panic /\ UNCHANGED bookDatabase
                ELSE /\ bookDatabase' = Store(bookDatabase, path, book)
                     /\ reply' = ReplyBook(book)
    /\ UNCHANGED <<cvars, idsGiven>>

\* DeleteBook.
DeleteBook ==
    /\ reply.code # "panic"
    /\ \E path \in RequestPaths :
         /\ call' = [op |-> "DeleteBook", Id |-> "", Path |-> path, Resource |-> NilBook]
         /\ db0' = bookDatabase
         /\ bookDatabase' = Delete(bookDatabase, path)
         /\ reply' = ReplyEmpty
    /\ UNCHANGED <<cvars, idsGiven>>

\* ReadBook.
ReadBook ==
    /\ reply.code # "panic"
    /\ \E path \in RequestPaths :
         /\ call' = [op |-> "ReadBook", Id |-> "", Path |-> path, Resource |-> NilBook]
         /\ db0' = bookDatabase
         /\ reply' = IF path \in DOMAIN bookDatabase
                     THEN ReplyBook(bookDatabase[path])
                     ELSE ReplyNotFound
    /\ UNCHANGED <<cvars, bookDatabase, idsGiven>>

\* The server after StartServer, beside a compiler that has not been run.
ServiceInit == Init /\ chain = <<"Book">>

ServiceNext ==
    \/ CreateBook
    \/ ApplyBook
    \/ DeleteBook
    \/ ReadBook

ServiceSpec == ServiceInit /\ [][ServiceNext]_vars

\* ------------------------------------------------------------ the claims

\* The number of ancestors above x.
RECURSIVE Depth(_)
Depth(x) == IF Len(x.Parents) = 0 THEN 0 ELSE 1 + Depth(x.Parents[1])

\* The lower-cased plural names of x's chain, outermost ancestor first.
RECURSIVE ChainNames(_)
ChainNames(x) ==
    IF Len(x.Parents) = 0 THEN <<ToLower(x.Plural)>>
    ELSE ChainNames(x.Parents[1]) \o <<ToLower(x.Plural)>>

\* One "name/*" segment per resource of x's chain, outermost first, the
\* segments separated by "/".
RECURSIVE CollectionPath(_)
CollectionPath(x) ==
    (IF Len(x.Parents) = 0 THEN <<>> ELSE CollectionPath(x.Parents[1]) \o <<"/">>)
        \o <<ToLower(x.Plural), "/", "*">>

IsSuffix(s, t) ==
    /\ Len(s) <= Len(t)
    /\ SubSeq(t, Len(t) - Len(s) + 1, Len(t)) = s

\* generateHTTPPath is running, or has just returned to its caller.
InHTTPPath == pc \in {"loop", "path"} /\ elements # <<>>

\* C1: for a chain of depth d, generateHTTPPath computes exactly d+1 "name/*"
\* segments, one per resource of the chain, outermost ancestor first: the
\* elements it collects are always the last resources of the chain, in chain
\* order, and all of them, joined as name/*/.../name/*, when it returns.
C1_PathFollowsChain ==
    InHTTPPath =>
        /\ IsSuffix(elements, ChainNames(target))
        /\ pc = "path" => HTTPPath(elements) = CollectionPath(target)

\* C2: the ancestor walk never runs forever: an iteration that does not leave
\* the loop moves p to a resource with fewer ancestors above it, so that a
\* chain of depth d is walked in at most d iterations and AddResource returns.
C2_WalkTerminates ==
    [][(pc = "loop" /\ pc' = "loop") => Depth(p') < Depth(p)]_vars

\* The RPC methods the current call has added.
NewMethods == SubSeq(sb, Len(sb0) + 1, Len(sb))
\* The messages the current call has added.
NewMessages == SubSeq(fb, Len(fb0) + 1, Len(fb))

\* C3: for a resource with one parent that has no parent, the List and the
\* Create binding are /{parent=<parent plural>/*/<plural>}, with a "/"
\* between the parent's collection path and the resource's plural.
C3_ParentBindingHasSeparator ==
    (pc # "idle" /\ Depth(r) = 1) =>
        \A i \in 1..Len(NewMethods) :
            NewMethods[i].name \in {<<"List", r.Kind>>, <<"Create", r.Kind>>} =>
                NewMethods[i].path =
                    <<"/", "{", "parent", "=">>
                        \o <<ToLower(r.Parents[1].Plural), "/", "*", "/",
                             ToLower(r.Plural)>>
                        \o <<"}">>

\* The paths of a resource without a parent, its plural written as `plural`.
RootPaths(plural) ==
    /\ (InHTTPPath /\ target = r) => HTTPPath(elements) = <<plural, "/", "*">>
    /\ \A i \in 1..Len(NewMethods) :
        /\ NewMethods[i].name = <<"Create", r.Kind>> =>
               NewMethods[i].path = <<"/", "{", "parent", "=", plural, "}">>
        /\ NewMethods[i].name \in {<<"Get", r.Kind>>, <<"Delete", r.Kind>>} =>
               NewMethods[i].path = <<"/", "{", "path", "=", plural, "/", "*", "}">>

\* C4, as stated: for a resource with no parent the collection path is
\* <plural>/*, the Create binding /{parent=<plural>} and the Get and Delete
\* bindings /{path=<plural>/*}, <plural> being the schema's plural name.
C4_RootPathsUsePlural ==
    (pc # "idle" /\ Depth(r) = 0) => RootPaths(r.Plural)

\* C4, amended: the same, <plural> being the schema's plural name in lower
\* case.
C4_RootPathsUseLowerPlural ==
    (pc # "idle" /\ Depth(r) = 0) => RootPaths(ToLower(r.Plural))

\* A resource without a parent whose Create, Get and Delete methods have all
\* been generated, its plural not written in lower case.
C4_Witness ==
    /\ pc = "returned" /\ ret.kind = "nil"
    /\ Depth(r) = 0
    /\ ToLower(r.Plural) # r.Plural
    /\ {"Create", "Read", "Delete"} \subseteq r.Methods.enabled

\* The methods enabled on a resource.
EnabledMethods(res) == IF res.Methods.present THEN res.Methods.enabled ELSE {}

\* The names of the messages a method kind calls for.
MessageNames(mk, kind) ==
    CASE mk = "Create" -> {<<"Create", kind, "Request">>}
      [] mk = "Read" -> {<<"Get", kind, "Request">>}
      [] mk = "Update" -> {<<"Update", kind, "Request">>}
      [] mk = "Delete" -> {<<"Delete", kind, "Request">>}
      [] mk = "List" -> {<<"List", kind, "Request">>, <<"List", kind, "Response">>}
      [] mk = "GlobalList" -> { <<"GlobalList", kind, "Request">>,
                                <<"GlobalList", kind, "Response">> }
      [] mk = "Apply" -> {<<"Apply", kind, "Request">>}

\* The name of the RPC a method kind calls for.
RpcName(mk, kind) == <<IF mk = "Read" THEN "Get" ELSE mk, kind>>

\* C5: a successful AddResource appends to the file exactly the resource
\* message and the request (and, for List and GlobalList, response) messages
\* of the enabled methods, and to the service exactly one RPC per enabled
\* method; a method that is not enabled, or a nil methods block, adds nothing.
C5_ExactlyTheEnabledMethods ==
    (pc = "returned" /\ ret.kind = "nil") =>
        LET msgs == {<<r.Kind>>}
                      \cup UNION {MessageNames(mk, r.Kind) : mk \in EnabledMethods(r)}
            rpcs == {RpcName(mk, r.Kind) : mk \in EnabledMethods(r)}
        IN  /\ SubSeq(fb, 1, Len(fb0)) = fb0
            /\ SubSeq(sb, 1, Len(sb0)) = sb0
            /\ {NewMessages[i].name : i \in 1..Len(NewMessages)} = msgs
            /\ Len(NewMessages) = Cardinality(msgs)
            /\ {NewMethods[i].name : i \in 1..Len(NewMethods)} = rpcs
            /\ Len(NewMethods) = Cardinality(rpcs)

\* A nested resource with all seven methods enabled has been compiled into
\* accumulators that already held its parent.
C5_Witness ==
    /\ pc = "returned" /\ ret.kind = "nil"
    /\ r.Methods.enabled = MethodKinds
    /\ Depth(r) = 1
    /\ Len(fb0) > 0

\* C6: for a schema with k fields of supported types the resource message is
\* named after the kind and has exactly k fields, in bijection with the
\* schema's: each carries the name and the number of its schema field.
C6_ResourceMessageMirrorsSchema ==
    (pc # "idle" /\ \A f \in r.Fields : f.Type \in SupportedTypes) =>
        /\ Len(NewMessages) > 0
        /\ LET mb == NewMessages[1] IN
           /\ mb.name = <<r.Kind>>
           /\ Len(mb.fields) = Cardinality(r.Fields)
           /\ \A f \in r.Fields :
                 Cardinality({ i \in 1..Len(mb.fields) :
                                 /\ mb.fields[i].name = f.Name
                                 /\ mb.fields[i].number = f.Number }) = 1
           /\ \A i \in 1..Len(mb.fields) :
                 \E f \in r.Fields :
                     mb.fields[i].name = f.Name /\ mb.fields[i].number = f.Number

\* A resource with two fields, the schema numbers of which are not 1 and 2,
\* has had its message generated.
C6_Witness ==
    /\ pc # "idle"
    /\ Cardinality(r.Fields) = 2
    /\ \A f \in r.Fields : f.Type \in SupportedTypes /\ f.Number > 2
    /\ Len(NewMessages) > 0

Contains(s, x) == \E i \in 1..Len(s) : s[i] = x

\* C7: with a field of a type that has no mapping, AddResource returns an
\* error naming the resource kind and the field type, and neither accumulator
\* is changed, wherever the field stands among the resource's fields.
C7_UnsupportedTypeFailsCleanly ==
    (pc # "idle" /\ \E f \in r.Fields : f.Type \notin SupportedTypes) =>
        /\ pc = "returned"
        /\ ret.kind = "error"
        /\ Contains(ret.msg, r.Kind)
        /\ \E f \in r.Fields : f.Type \notin SupportedTypes /\ Contains(ret.msg, f.Type)
        /\ fb = fb0
        /\ sb = sb0

\* The unmapped field comes after a mapped one in number order, on a resource
\* with methods, compiled into accumulators that are not empty.
C7_Witness ==
    /\ pc = "returned" /\ ret.kind = "error"
    /\ \E f \in r.Fields, g \in r.Fields :
          f.Type \notin SupportedTypes /\ g.Number < f.Number
    /\ r.Methods.enabled # {}
    /\ Len(fb0) > 0

\* C8: when the load of the field-mask descriptor (Update) or of the empty
\* descriptor (Delete) fails, AddResource returns an error, and that error
\* names the resource's kind.
C8_LoadFailureIsWrappedError ==
    (pc = "returned" /\ failed # {}) =>
        ret.kind = "error" /\ Contains(ret.msg, r.Kind)

\* C9: whenever AddResource returns an error, both accumulators are as they
\* were before the call.
C9_NoPartialOutput ==
    (pc = "returned" /\ ret.kind = "error") => (fb = fb0 /\ sb = sb0)

C11_ApplyIsUpsert ==
    (call.op = "ApplyBook" /\ ~call.Resource.nil) =>
        /\ reply.code = "OK"
        /\ call.Path \in DOMAIN bookDatabase
        /\ bookDatabase[call.Path].rest = call.Resource.rest
        /\ call.Path \in DOMAIN db0 =>
             /\ bookDatabase[call.Path].Id = db0[call.Path].Id
             /\ bookDatabase[call.Path].Path = db0[call.Path].Path

\* C12: a CreateBook with an empty id, after CreateBook calls with empty ids
\* and DeleteBook calls, stores its book under a path that held none, so the
\* store grows by one book.
C12_AutoIdIsFresh ==
    (call.op = "CreateBook" /\ call.Id = "" /\ reply.code = "OK" /\ ~idsGiven) =>
        /\ reply.book.Path \notin DOMAIN db0
        /\ Cardinality(DOMAIN bookDatabase) = Cardinality(DOMAIN db0) + 1

====
